---- MODULE Spec2Model ----
(***************************************************************************)
(* WriteFlow AI (src/main.py): the authorization gate and the per-token    *)
(* sliding-window rate limiter in front of the three completion endpoints. *)
(***************************************************************************)
EXTENDS Integers, Sequences, FiniteSets, TLC

(***************************************************************************)
(* Configuration                                                           *)
(***************************************************************************)
RATE_LIMIT_WINDOW == 60
RATE_LIMIT_MAX == 20

MASTER_API_KEY == "wf_live_master_key_change_me"
VALID_ACCESS_TOKENS == {MASTER_API_KEY}

\* The clock (time.time()) is read on a grid: it advances by TickStep units
\* at a time and stops advancing at MaxTime.
TickStep == 30
MaxTime == 120

VARIABLES
    now,          \* the value time.time() returns
    _rate_limit,  \* dict token -> list of timestamps
    pc,           \* "idle", "authorized", "upstream" (call in flight), "done"
    req,          \* the request being handled: [op, body, authorization]
    resp,         \* its response: [status, detail]
    called,       \* whether client.chat.completions.create was invoked for it
    \* History of the run, kept for the properties; no action reads it to
    \* decide what the program does.
    lastCheck,    \* the time of the latest _check_rate_limit call, -1 before any
    admitted,     \* times of the checks that did not raise, t with now - t < WINDOW
    attempts,     \* times of all checks, raised or not, t with now - t < WINDOW
    idle,         \* the checks since the latest pause of WINDOW or more
    \* Requests handled side by side (section 5 of the specification).
    atomic,       \* whether a check runs its lines without interruption
    wpc,          \* per worker: the line of _check_rate_limit it is at
    wnow,         \* per worker: its local now
    wtmp          \* per worker: the list its comprehension built

hist == <<lastCheck, admitted, attempts, idle>>
conc == <<atomic, wpc, wnow, wtmp>>
seq == <<pc, req, resp, called, lastCheck, attempts, idle>>
vars == <<now, _rate_limit, pc, req, resp, called, lastCheck, admitted, attempts, idle,
          atomic, wpc, wnow, wtmp>>

(***************************************************************************)
(* Authorization headers.  A header value is absent (None) or a string;    *)
(* a string is modelled as its sequence of chunks, each a whitespace run   *)
(* WS or a word.                                                           *)
(***************************************************************************)
WS == " "
None == [present |-> FALSE, chunks |-> <<>>]
Str(chunks) == [present |-> TRUE, chunks |-> chunks]

\* str.split(): the words between whitespace runs.
Split(s) == SelectSeq(s.chunks, LAMBDA c : c # WS)

\* str.lower() on the scheme words that occur.
Lower(w) ==
    CASE w = "Bearer" -> "bearer"
      [] w = "BEARER" -> "bearer"
      [] w = "Token" -> "token"
      [] OTHER -> w

\* Python truthiness of Optional[str]: None and "" are falsy.
Truthy(s) == s.present /\ s.chunks # <<>>

Headers ==
    { None,
      Str(<<>>),
      Str(<<WS>>),
      Str(<<"Bearer">>),
      Str(<<"Token", WS, "abc">>),
      Str(<<"Token", WS, MASTER_API_KEY>>),
      Str(<<"Bearer", WS, MASTER_API_KEY, WS, "x">>),
      Str(<<"Bearer", WS, "abc">>),
      Str(<<"Bearer", WS, "WF_LIVE_MASTER_KEY_CHANGE_ME">>),
      Str(<<"Bearer", WS, MASTER_API_KEY>>),
      Str(<<"bearer", WS, MASTER_API_KEY>>),
      Str(<<WS, "BEARER", WS, MASTER_API_KEY, WS>>) }

(***************************************************************************)
(* Rate limiting                                                           *)
(***************************************************************************)
Detail429 == "Rate limit exceeded. Please wait before making more requests."

\* The pruning with <= for <: a timestamp exactly one window old is kept.
PruneInclusive(hits, t_now) == SelectSeq(hits, LAMBDA t : t_now - t <= RATE_LIMIT_WINDOW)

\* hits[:] = [t for t in hits if now - t < RATE_LIMIT_WINDOW]
Prune(hits, t_now) == SelectSeq(hits, LAMBDA t : t_now - t < RATE_LIMIT_WINDOW)

\* _rate_limit.setdefault(token, [])
SetDefault(rl, token) ==
    IF token \in DOMAIN rl THEN rl ELSE rl @@ (token :> <<>>)

\* _check_rate_limit with > for >=.
CheckOffByOne(rl, token, t_now) ==
    LET hits == Prune(SetDefault(rl, token)[token], t_now)
        pruned == [SetDefault(rl, token) EXCEPT ![token] = hits]
    IN  IF Len(hits) > RATE_LIMIT_MAX
        THEN [raised |-> TRUE, rl |-> pruned]
        ELSE [raised |-> FALSE,
              rl |-> [pruned EXCEPT ![token] = Append(hits, t_now)]]

\* _check_rate_limit with the append placed before the length test.
CheckRecordsRejected(rl, token, t_now) ==
    LET hits == Prune(SetDefault(rl, token)[token], t_now)
        pruned == [SetDefault(rl, token) EXCEPT ![token] = Append(hits, t_now)]
    IN  [raised |-> Len(hits) >= RATE_LIMIT_MAX, rl |-> pruned]

\* _check_rate_limit with "hits = [...]" for "hits[:] = [...]": the pruned
\* list is a new object, and the append goes to it, not to the map's list.
CheckRebinds(rl, token, t_now) ==
    LET hits == Prune(SetDefault(rl, token)[token], t_now)
    IN  [raised |-> Len(hits) >= RATE_LIMIT_MAX, rl |-> SetDefault(rl, token)]

\* _check_rate_limit without the pruning line.
CheckNoPrune(rl, token, t_now) ==
    LET hits == SetDefault(rl, token)[token]
    IN  IF Len(hits) >= RATE_LIMIT_MAX
        THEN [raised |-> TRUE, rl |-> SetDefault(rl, token)]
        ELSE [raised |-> FALSE,
              rl |-> [SetDefault(rl, token) EXCEPT ![token] = Append(hits, t_now)]]

\* The result of _check_rate_limit(token) at time t_now on the map rl:
\* whether it raised, and the map it leaves.
_check_rate_limit(rl, token, t_now) ==
    LET hits == Prune(SetDefault(rl, token)[token], t_now)
        pruned == [SetDefault(rl, token) EXCEPT ![token] = hits]
    IN  IF Len(hits) >= RATE_LIMIT_MAX
        THEN [raised |-> TRUE, rl |-> pruned]
        ELSE [raised |-> FALSE,
              rl |-> [pruned EXCEPT ![token] = Append(hits, t_now)]]

(***************************************************************************)
(* Auth                                                                    *)
(***************************************************************************)
Reject(status, detail, rl) == [status |-> status, detail |-> detail, rl |-> rl]

\* _authorize without the scheme comparison: any two-part header goes on to
\* the token lookup.
AuthorizeAnyScheme(authorization, rl, t_now) ==
    IF ~Truthy(authorization)
    THEN Reject(401, "Missing Authorization header", rl)
    ELSE LET parts == Split(authorization) IN
         IF Len(parts) # 2
         THEN Reject(401, "Invalid Authorization format. Use: Bearer <token>", rl)
         ELSE LET token == parts[2] IN
              IF token \notin VALID_ACCESS_TOKENS
              THEN Reject(403, "Invalid access token", rl)
              ELSE LET c == _check_rate_limit(rl, token, t_now) IN
                   IF c.raised THEN Reject(429, Detail429, c.rl)
                   ELSE Reject(0, "", c.rl)

\* _authorize with the limiter called before the token lookup.
AuthorizeLimitFirst(authorization, rl, t_now) ==
    IF ~Truthy(authorization)
    THEN Reject(401, "Missing Authorization header", rl)
    ELSE LET parts == Split(authorization) IN
         IF Len(parts) # 2 \/ Lower(parts[1]) # "bearer"
         THEN Reject(401, "Invalid Authorization format. Use: Bearer <token>", rl)
         ELSE LET token == parts[2]
                  c == _check_rate_limit(rl, token, t_now) IN
              IF c.raised THEN Reject(429, Detail429, c.rl)
              ELSE IF token \notin VALID_ACCESS_TOKENS
                   THEN Reject(403, "Invalid access token", c.rl)
                   ELSE Reject(0, "", c.rl)

\* The outcome of _authorize(authorization): status 0 when it returns the
\* token, otherwise the HTTPException it raises; and the map it leaves.
_authorize(authorization, rl, t_now) ==
    IF ~Truthy(authorization)
    THEN Reject(401, "Missing Authorization header", rl)
    ELSE LET parts == Split(authorization) IN
         IF Len(parts) # 2 \/ Lower(parts[1]) # "bearer"
         THEN Reject(401, "Invalid Authorization format. Use: Bearer <token>", rl)
         ELSE LET token == parts[2] IN
              IF token \notin VALID_ACCESS_TOKENS
              THEN Reject(403, "Invalid access token", rl)
              ELSE LET c == _check_rate_limit(rl, token, t_now) IN
                   IF c.raised THEN Reject(429, Detail429, c.rl)
                   ELSE Reject(0, "", c.rl)

(***************************************************************************)
(* Request models                                                          *)
(***************************************************************************)
Missing == -1   \* a field the body does not carry

\* Field(..., min_length, max_length) on a required string of length n.
Required(n, lo, hi) == n # Missing /\ lo <= n /\ n <= hi
\* Field(default, max_length) on an optional string of length n.
Optional(n, hi) == n = Missing \/ n <= hi

ContentTypes == {"blog", "product", "email", "social"}

\* Bodies carry the discriminant and the lengths of their string fields.
GenerateRequest(b) ==
    /\ b.type \in ContentTypes
    /\ Required(b.prompt, 2, 4000)
    /\ Optional(b.tone, 50)
    /\ Optional(b.language, 10)

RewriteRequest(b) ==
    /\ Required(b.text, 2, 8000)
    /\ Optional(b.style, 50)

TranslateRequest(b) == Required(b.text, 1, 8000)

Ops == {"generate", "rewrite", "translate"}

Bodies(op) ==
    CASE op = "generate" ->
           { [type |-> "blog", prompt |-> 2, tone |-> Missing, language |-> 10],
             [type |-> "social", prompt |-> 4000, tone |-> 50, language |-> Missing],
             [type |-> "poem", prompt |-> 20, tone |-> Missing, language |-> Missing],
             [type |-> "", prompt |-> 20, tone |-> Missing, language |-> Missing],
             [type |-> "blog", prompt |-> 1, tone |-> Missing, language |-> Missing],
             [type |-> "blog", prompt |-> 4001, tone |-> Missing, language |-> Missing],
             [type |-> "blog", prompt |-> Missing, tone |-> Missing, language |-> Missing],
             [type |-> "email", prompt |-> 20, tone |-> 51, language |-> Missing],
             [type |-> "product", prompt |-> 20, tone |-> Missing, language |-> 11] }
      [] op = "rewrite" ->
           { [text |-> 2, style |-> Missing],
             [text |-> 8000, style |-> 50],
             [text |-> 1, style |-> Missing],
             [text |-> 8001, style |-> Missing],
             [text |-> Missing, style |-> Missing],
             [text |-> 20, style |-> 51] }
      [] op = "translate" ->
           { [text |-> 1],
             [text |-> 8000],
             [text |-> 0],
             [text |-> 8001],
             [text |-> Missing] }

\* Request-body validation, done by the framework before the endpoint
\* function is entered.
Validates(op, b) ==
    CASE op = "generate" -> GenerateRequest(b)
      [] op = "rewrite" -> RewriteRequest(b)
      [] op = "translate" -> TranslateRequest(b)

\* The requests a client may send.
Requests ==
    UNION { { [op |-> op, body |-> b, authorization |-> h] :
              b \in Bodies(op), h \in Headers } : op \in Ops }

\* The requests with a well-formed body and one of three headers: none, an
\* unknown token, the master token.
GateRequests ==
    { r \in Requests :
        /\ Validates(r.op, r.body)
        /\ r.authorization \in { None, Str(<<"Bearer", WS, "abc">>),
                                 Str(<<"Bearer", WS, MASTER_API_KEY>>) } }

\* The requests in flight at once in the side-by-side specification.
NWorkers == 2
Workers == 1..NWorkers

(***************************************************************************)
(* Endpoints                                                               *)
(***************************************************************************)
NoReq == [op |-> "none"]
NoResp == [status |-> 0, detail |-> ""]

Init ==
    /\ now = 0
    /\ _rate_limit = <<>>
    /\ pc = "idle"
    /\ req = NoReq
    /\ resp = NoResp
    /\ called = FALSE
    /\ lastCheck = -1
    /\ admitted = <<>>
    /\ attempts = <<>>
    /\ idle = [start |-> -1, n |-> 0, rejected |-> FALSE, wasLimited |-> FALSE]
    /\ atomic = TRUE
    /\ wpc = [w \in Workers |-> "idle"]
    /\ wnow = [w \in Workers |-> 0]
    /\ wtmp = [w \in Workers |-> <<>>]

\* time passes
Tick ==
    /\ now + TickStep <= MaxTime
    /\ now' = now + TickStep
    /\ UNCHANGED <<_rate_limit, pc, req, resp, called>>

\* The endpoint with _authorize run before the body is validated.
ReceiveAuthorizeFirst(op, body, authorization) ==
    /\ pc = "idle"
    /\ req' = [op |-> op, body |-> body, authorization |-> authorization]
    /\ LET a == _authorize(authorization, _rate_limit, now) IN
       /\ _rate_limit' = a.rl
       /\ IF a.status # 0
          THEN /\ resp' = [status |-> a.status, detail |-> a.detail]
               /\ pc' = "done"
          ELSE IF ~Validates(op, body)
               THEN /\ resp' = [status |-> 422, detail |-> "validation"]
                    /\ pc' = "done"
               ELSE /\ resp' = NoResp
                    /\ pc' = "authorized"
    /\ UNCHANGED <<now, called>>

\* A request arrives at generate_content / rewrite_content /
\* translate_content: the body is validated, then _authorize runs.
Receive(op, body, authorization) ==
    /\ pc = "idle"
    /\ req' = [op |-> op, body |-> body, authorization |-> authorization]
    /\ IF ~Validates(op, body)
       THEN /\ resp' = [status |-> 422, detail |-> "validation"]
            /\ pc' = "done"
            /\ UNCHANGED <<_rate_limit, called>>
       ELSE LET a == _authorize(authorization, _rate_limit, now) IN
            /\ _rate_limit' = a.rl
            /\ IF a.status # 0
               THEN /\ resp' = [status |-> a.status, detail |-> a.detail]
                    /\ pc' = "done"
                    /\ UNCHANGED called
               ELSE /\ resp' = NoResp
                    /\ pc' = "authorized"
                    /\ UNCHANGED called
    /\ UNCHANGED now

\* The endpoint composes the prompt and _call_openai issues the completion
\* call.
CallOpenAI ==
    /\ pc = "authorized"
    /\ pc' = "upstream"
    /\ called' = TRUE
    /\ UNCHANGED <<now, _rate_limit, req, resp>>

UpstreamOutcomes == {"ok", "RateLimitError", "APIError", "Exception"}

\* _call_openai: the completion call returns or raises.
CallReturns(outcome) ==
    /\ pc = "upstream"
    /\ resp' = CASE outcome = "ok" -> [status |-> 200, detail |-> ""]
                 [] outcome = "RateLimitError" ->
                      [status |-> 429,
                       detail |-> "OpenAI rate limit reached. Please try again shortly."]
                 [] outcome = "APIError" -> [status |-> 502, detail |-> "OpenAI API error"]
                 [] outcome = "Exception" -> [status |-> 500, detail |-> "Internal error"]
    /\ pc' = "done"
    /\ UNCHANGED <<now, _rate_limit, req, called>>

\* The response is sent; nothing request-scoped is retained.
Respond ==
    /\ pc = "done"
    /\ pc' = "idle"
    /\ req' = NoReq
    /\ resp' = NoResp
    /\ called' = FALSE
    /\ UNCHANGED <<now, _rate_limit>>

(***************************************************************************)
(* The history variables.  Each specification below records the part of    *)
(* the history its properties read.                                        *)
(***************************************************************************)
MaxAttempts == 41   \* checks recorded in attempts within one window
CountCap == 21      \* idle.n counts up to RATE_LIMIT_MAX + 1 and stays there

Recent(s, t_now) == SelectSeq(s, LAMBDA t : t_now - t < 60)

\* The step just taken ran the limiter and it did not raise / it raised.
PassedGate == pc' = "authorized"
RaisedLimit == pc' = "done" /\ resp'.status = 429
RanCheck == PassedGate \/ RaisedLimit

HistTick(withAttempts) ==
    /\ admitted' = Recent(admitted, now')
    /\ attempts' = IF withAttempts THEN Recent(attempts, now') ELSE attempts
    /\ UNCHANGED <<lastCheck, idle>>

HistReceive(withAttempts, withIdle) ==
    /\ lastCheck' = IF RanCheck THEN now ELSE lastCheck
    /\ admitted' = IF PassedGate THEN Append(admitted, now) ELSE admitted
    /\ IF withAttempts /\ RanCheck
       THEN /\ Len(attempts) < MaxAttempts
            /\ attempts' = Append(attempts, now)
       ELSE attempts' = attempts
    /\ IF withIdle /\ RanCheck
       THEN idle' =
              IF lastCheck = -1 \/ now - lastCheck >= 60
              THEN [start |-> now, n |-> 1, rejected |-> RaisedLimit,
                    wasLimited |-> idle.rejected]
              ELSE [idle EXCEPT !.n = IF @ < CountCap THEN @ + 1 ELSE @,
                                !.rejected = RaisedLimit]
       ELSE idle' = idle

Next ==
    \/ Tick /\ HistTick(FALSE) /\ UNCHANGED conc
    \/ \E r \in Requests :
           Receive(r.op, r.body, r.authorization) /\ HistReceive(FALSE, FALSE) /\ UNCHANGED conc
    \/ CallOpenAI /\ UNCHANGED <<hist, conc>>
    \/ \E outcome \in UpstreamOutcomes : CallReturns(outcome) /\ UNCHANGED <<hist, conc>>
    \/ Respond /\ UNCHANGED <<hist, conc>>

Spec == Init /\ [][Next]_vars

\* The same program, with every check recorded in attempts.
NextAttempts ==
    \/ Tick /\ HistTick(TRUE) /\ UNCHANGED conc
    \/ \E r \in GateRequests :
           Receive(r.op, r.body, r.authorization) /\ HistReceive(TRUE, FALSE) /\ UNCHANGED conc
    \/ CallOpenAI /\ UNCHANGED <<hist, conc>>
    \/ \E outcome \in UpstreamOutcomes : CallReturns(outcome) /\ UNCHANGED <<hist, conc>>
    \/ Respond /\ UNCHANGED <<hist, conc>>

SpecAttempts == Init /\ [][NextAttempts]_vars

\* The same program, with the checks since the latest pause recorded in idle.
NextIdle ==
    \/ Tick /\ HistTick(FALSE) /\ UNCHANGED conc
    \/ \E r \in GateRequests :
           Receive(r.op, r.body, r.authorization) /\ HistReceive(FALSE, TRUE) /\ UNCHANGED conc
    \/ CallOpenAI /\ UNCHANGED <<hist, conc>>
    \/ \E outcome \in UpstreamOutcomes : CallReturns(outcome) /\ UNCHANGED <<hist, conc>>
    \/ Respond /\ UNCHANGED <<hist, conc>>

SpecIdle == Init /\ [][NextIdle]_vars

(***************************************************************************)
(* Requests handled side by side, all carrying the master token.  With     *)
(* atomic, a check runs as the event loop runs it: from its first line to  *)
(* its last with no other request in between.  Without, each line of       *)
(* _check_rate_limit is a step of its own, as under parallel threads.      *)
(***************************************************************************)
MaxTimeConc == 60   \* the clock stops advancing here
MaxAdmitted == 21   \* no new check starts with this many admitted in the window
MaxLost == 1        \* nor, line by line, with this many admitted timestamps missing

InitConc ==
    /\ Init!1 /\ Init!2 /\ Init!3 /\ Init!4 /\ Init!5 /\ Init!6
    /\ Init!7 /\ Init!8 /\ Init!9 /\ Init!10
    /\ atomic \in BOOLEAN
    /\ wpc = [w \in Workers |-> "idle"]
    /\ wnow = [w \in Workers |-> 0]
    /\ wtmp = [w \in Workers |-> <<>>]

\* time passes; the lines of a check take less than one clock step, so the
\* clock does not advance while a worker is inside _check_rate_limit.
ConcTick ==
    /\ now + TickStep <= MaxTimeConc
    /\ \A w \in Workers : wpc[w] \in {"idle", "upstream"}
    /\ now' = now + TickStep
    /\ admitted' = Recent(admitted, now')
    /\ UNCHANGED <<_rate_limit, seq, conc>>

\* _check_rate_limit run without interruption.
CheckAtomic(w) ==
    /\ atomic /\ wpc[w] = "idle"
    /\ Len(admitted) < MaxAdmitted
    /\ LET c == _check_rate_limit(_rate_limit, MASTER_API_KEY, now) IN
       /\ _rate_limit' = c.rl
       /\ wpc' = [wpc EXCEPT ![w] = IF c.raised THEN "idle" ELSE "upstream"]
       /\ admitted' = IF c.raised THEN admitted ELSE Append(admitted, now)
    /\ UNCHANGED <<now, seq, atomic, wnow, wtmp>>

\* now = time.time(); hits = _rate_limit.setdefault(token, [])
Enter(w) ==
    /\ ~atomic /\ wpc[w] = "idle"
    /\ Len(admitted) < MaxAdmitted
    /\ Len(admitted) - Len(Recent(SetDefault(_rate_limit, MASTER_API_KEY)[MASTER_API_KEY], now)) < MaxLost
    /\ wnow' = [wnow EXCEPT ![w] = now]
    /\ _rate_limit' = SetDefault(_rate_limit, MASTER_API_KEY)
    /\ wpc' = [wpc EXCEPT ![w] = "prune"]
    /\ UNCHANGED <<now, seq, admitted, atomic, wtmp>>

\* [t for t in hits if now - t < RATE_LIMIT_WINDOW]
BuildPruned(w) ==
    /\ wpc[w] = "prune"
    /\ wtmp' = [wtmp EXCEPT ![w] = Prune(_rate_limit[MASTER_API_KEY], wnow[w])]
    /\ wpc' = [wpc EXCEPT ![w] = "assign"]
    /\ UNCHANGED <<now, _rate_limit, seq, admitted, atomic, wnow>>

\* hits[:] = ...
AssignPruned(w) ==
    /\ wpc[w] = "assign"
    /\ _rate_limit' = [_rate_limit EXCEPT ![MASTER_API_KEY] = wtmp[w]]
    /\ wtmp' = [wtmp EXCEPT ![w] = <<>>]
    /\ wpc' = [wpc EXCEPT ![w] = "test"]
    /\ UNCHANGED <<now, seq, admitted, atomic, wnow>>

\* if len(hits) >= RATE_LIMIT_MAX: raise HTTPException(429)
TestLen(w) ==
    /\ wpc[w] = "test"
    /\ wpc' = [wpc EXCEPT ![w] =
                 IF Len(_rate_limit[MASTER_API_KEY]) >= RATE_LIMIT_MAX
                 THEN "idle" ELSE "append"]
    /\ UNCHANGED <<now, _rate_limit, seq, admitted, atomic, wnow, wtmp>>

\* hits.append(now)
AppendHit(w) ==
    /\ wpc[w] = "append"
    /\ _rate_limit' = [_rate_limit EXCEPT ![MASTER_API_KEY] = Append(@, wnow[w])]
    /\ admitted' = Recent(Append(admitted, wnow[w]), now)
    /\ wpc' = [wpc EXCEPT ![w] = "upstream"]
    /\ UNCHANGED <<now, seq, atomic, wnow, wtmp>>

\* The completion call of an admitted request returns.
Finish(w) ==
    /\ wpc[w] = "upstream"
    /\ wpc' = [wpc EXCEPT ![w] = "idle"]
    /\ UNCHANGED <<now, _rate_limit, seq, admitted, atomic, wnow, wtmp>>

NextConc ==
    \/ ConcTick
    \/ \E w \in Workers : CheckAtomic(w)
    \/ \E w \in Workers : Enter(w)
    \/ \E w \in Workers : BuildPruned(w)
    \/ \E w \in Workers : AssignPruned(w)
    \/ \E w \in Workers : TestLen(w)
    \/ \E w \in Workers : AppendHit(w)
    \/ \E w \in Workers : Finish(w)

SpecConc == InitConc /\ [][NextConc]_vars

(***************************************************************************)
(* Properties                                                              *)
(***************************************************************************)
\* The headers of Headers by what section 6 of the specification says of
\* them, written out one by one.
HdrMissing == { None, Str(<<>>) }
HdrMalformed ==
    { Str(<<WS>>),
      Str(<<"Bearer">>),
      Str(<<"Token", WS, "abc">>),
      Str(<<"Token", WS, MASTER_API_KEY>>),
      Str(<<"Bearer", WS, MASTER_API_KEY, WS, "x">>) }
HdrUnknown ==
    { Str(<<"Bearer", WS, "abc">>),
      Str(<<"Bearer", WS, "WF_LIVE_MASTER_KEY_CHANGE_ME">>) }
HdrValid ==
    { Str(<<"Bearer", WS, MASTER_API_KEY>>),
      Str(<<"bearer", WS, MASTER_API_KEY>>),
      Str(<<WS, "BEARER", WS, MASTER_API_KEY, WS>>) }

\* The bodies section 6 of the specification accepts.
InRange(n, lo, hi) == lo <= n /\ n <= hi
BodyOk(op, b) ==
    CASE op = "generate" ->
           /\ b.type \in {"blog", "product", "email", "social"}
           /\ InRange(b.prompt, 2, 4000)
           /\ b.tone <= 50
           /\ b.language <= 10
      [] op = "rewrite" -> InRange(b.text, 2, 8000) /\ b.style <= 50
      [] op = "translate" -> InRange(b.text, 1, 8000)

\* A request is being handled or has just been answered.
InHand == pc # "idle"
\* The gate let the request in hand through / rejected it as over quota.
Passed == pc \in {"authorized", "upstream"} \/ (pc = "done" /\ called)
Limited == pc = "done" /\ resp = [status |-> 429, detail |-> Detail429]
\* The master token's recorded timestamps.
Hits == IF MASTER_API_KEY \in DOMAIN _rate_limit THEN _rate_limit[MASTER_API_KEY] ELSE <<>>
AtLimit == Len(Hits) = RATE_LIMIT_MAX /\ \A i \in 1..Len(Hits) : now - Hits[i] < 60
\* The step is the arrival of a request.
Arrival == pc = "idle" /\ pc' # "idle"

\* C1: the gate checks presence, then shape and scheme, then membership, then
\* quota, and the first failing check decides the response; the completion
\* call is issued only for a request that passed all of them.
C1_GateOrder ==
    /\ called => pc \in {"upstream", "done"}
    /\ pc = "upstream" => called
    /\ (InHand /\ BodyOk(req.op, req.body)) =>
         /\ req.authorization \in HdrMissing =>
              pc = "done" /\ ~called
              /\ resp = [status |-> 401, detail |-> "Missing Authorization header"]
         /\ req.authorization \in HdrMalformed =>
              pc = "done" /\ ~called /\ resp.status = 401
              /\ resp.detail = "Invalid Authorization format. Use: Bearer <token>"
         /\ req.authorization \in HdrUnknown =>
              pc = "done" /\ ~called /\ resp.status = 403
         /\ req.authorization \in HdrValid => (Limited /\ ~called) \/ Passed
    /\ (called \/ Passed) => (req.authorization \in HdrValid /\ BodyOk(req.op, req.body))

\* C1 witness: a wrong-scheme header carrying the master token is answered
\* 401 while that token is at its limit.
C1_Witness ==
    /\ pc = "done" /\ resp.status = 401 /\ ~called
    /\ req.authorization = Str(<<"Token", WS, MASTER_API_KEY>>)
    /\ AtLimit

\* The two parts of C2: the response, and the map across the arrival step.
C2_Inv ==
    (InHand /\ BodyOk(req.op, req.body) /\ req.authorization \in HdrUnknown) =>
        pc = "done" /\ resp.status = 403 /\ ~called
C2_Frame ==
    (Arrival /\ resp'.status \in {401, 403}) => _rate_limit' = _rate_limit

\* C2: a request carrying a token outside the registry is answered 403,
\* whatever the limiter holds, never 429 and never passed on; and a request
\* answered 401 or 403 leaves the limiter's map as it was.
C2_UnknownForbidden == []C2_Inv /\ [][C2_Frame]_vars

\* C2 witness: 403 for an unknown token while the master token is at its
\* limit, with no key for the unknown token.
C2_Witness ==
    /\ pc = "done" /\ resp.status = 403
    /\ req.authorization = Str(<<"Bearer", WS, "abc">>)
    /\ AtLimit
    /\ DOMAIN _rate_limit = {MASTER_API_KEY}

\* The two parts of C6: the response, and the map across the arrival step.
C6_Inv ==
    (InHand /\ ~BodyOk(req.op, req.body)) =>
        pc = "done" /\ resp.status = 422 /\ ~called
C6_Frame ==
    (Arrival /\ ~BodyOk(req'.op, req'.body)) =>
        _rate_limit' = _rate_limit /\ UNCHANGED hist

\* C6: a request whose body fails validation is answered with a validation
\* error whatever its Authorization header, the gate does not run, no quota
\* is used and no completion call is issued.
C6_ValidationFirst == []C6_Inv /\ [][C6_Frame]_vars

\* C6 witness: a body with an unknown content type, sent with the master
\* token while it is at its limit, is answered 422.
C6_Witness ==
    /\ pc = "done" /\ resp.status = 422
    /\ req.op = "generate" /\ req.body.type = "poem"
    /\ req.authorization \in HdrValid
    /\ AtLimit

\* The request that arrives carries a well-formed body and the master token.
ValidArrival ==
    Arrival /\ BodyOk(req'.op, req'.body) /\ req'.authorization \in HdrValid
\* The request in hand went through _check_rate_limit, at time lastCheck.
Checked == Passed \/ Limited
\* The timestamps of s less than one window old at time t.
InWindow(s, t) == SelectSeq(s, LAMBDA x : t - x < 60)
Sorted(s) == \A i \in 1..Len(s) : \A j \in i..Len(s) : s[i] <= s[j]

\* C3 as stated: with N the number of checks of the token (admitted or
\* rate-limited) in the window ending at the request, the request is
\* admitted exactly when N <= 20.
C3_Original ==
    (Checked /\ now = lastCheck) => (Passed <=> Len(attempts) <= RATE_LIMIT_MAX)

\* C3 as amended: with N one more than the number of requests admitted before
\* it in the window (now - 60, now], the request is admitted exactly when
\* N <= 20; requests answered rate-limited are not counted.
C3_AdmittedCount ==
    (Checked /\ now = lastCheck) =>
        LET before == Len(admitted) - (IF Passed THEN 1 ELSE 0)
        IN  Passed <=> before + 1 <= 20

\* C3 witness: 21 checks at one instant, 20 admitted, the 21st answered 429.
C3_Witness ==
    /\ Limited /\ now = lastCheck
    /\ Len(attempts) = 21 /\ \A i \in 1..21 : attempts[i] = now
    /\ Len(admitted) = 20

\* C4: after a pause of at least 60 in the checks of the token, the next 20
\* checks made within 60 of the first of them are all admitted.
C4_FullQuotaAfterIdle ==
    (Checked /\ idle.n <= 20 /\ lastCheck - idle.start < 60) => Passed

\* C4 witness: the token was rate-limited before the pause, and the 20th
\* check after it, made later than the first, is admitted.
C4_Witness ==
    /\ Passed /\ idle.wasLimited /\ idle.n = 20
    /\ idle.start >= 60 /\ lastCheck > idle.start

\* C5 as stated: every request that passes the membership check appends one
\* timestamp to the token's sequence.
C5_Original ==
    [][ValidArrival => Hits' = Append(InWindow(Hits, now), now)]_vars

\* The parts of C5 as amended: the timestamp of the request in hand is the
\* last of the sequence; the arrival step appends it; no later step of the
\* request changes the sequence.
C5_Inv ==
    Passed => /\ Hits # <<>>
              /\ Hits[Len(Hits)] = lastCheck
              /\ Len(admitted) <= Len(Hits)
C5_Record ==
    (ValidArrival /\ pc' = "authorized") => Hits' = Append(InWindow(Hits, now), now)
C5_Keep == pc \in {"authorized", "upstream", "done"} => Hits' = Hits

\* C5 as amended: every request that passes the gate (membership and quota)
\* appends one timestamp at the gate, before the completion call is issued,
\* and the timestamp stays whatever the completion call returns.
C5_HitAtGate == []C5_Inv /\ [][C5_Record /\ C5_Keep]_vars

\* C5 witness: the completion call failed with an API error some time after
\* the gate, and the hit recorded at the gate is in the sequence.
C5_Witness ==
    /\ pc = "done" /\ called /\ resp.status = 502
    /\ now > lastCheck /\ Hits[Len(Hits)] = lastCheck

\* C7: at every moment at most 20 admitted requests lie in the trailing
\* window (now - 60, now].
C7_Cap == Len(admitted) <= 20

\* C7 witness: 20 admitted requests in the window, at two different times.
C7_Witness ==
    /\ Len(admitted) = 20
    /\ admitted[1] < admitted[20] /\ admitted[20] = now

\* C8 on one step: the arrival of a request with the master token when 20 or
\* more timestamps are less than 60 old.
C8_Step ==
    (ValidArrival /\ Len(InWindow(Hits, now)) >= 20) =>
        /\ pc' = "done" /\ resp' = [status |-> 429, detail |-> Detail429]
        /\ Hits' = InWindow(Hits, now)
        /\ Len(Hits') <= Len(Hits)
        /\ DOMAIN _rate_limit' = DOMAIN _rate_limit
        /\ \A k \in DOMAIN _rate_limit \ {MASTER_API_KEY} : _rate_limit'[k] = _rate_limit[k]

\* C8: a check that finds 20 or more timestamps left after pruning answers
\* rate-limited and leaves the pruned sequence: nothing is appended, no other
\* key of the map changes.
C8_RejectNoRecord == [][C8_Step]_vars

\* C8 witness: a request answered rate-limited, the sequence holding 20
\* timestamps of two different times.
C8_Witness ==
    /\ Limited /\ now = lastCheck
    /\ Len(Hits) = 20 /\ Hits[1] < Hits[20]

\* The two parts of C9: the sequence after a check, and the check that finds
\* 20 timestamps all exactly 60 old.
C9_Inv ==
    /\ \A i \in 1..Len(Hits) : lastCheck - Hits[i] < 60 /\ Hits[i] <= lastCheck
    /\ Len(Hits) <= 20
    /\ Sorted(Hits)
C9_Step ==
    (ValidArrival /\ Len(Hits) = 20 /\ \A i \in 1..Len(Hits) : Hits[i] = now - 60) =>
        pc' = "authorized" /\ Hits' = <<now>>

\* C9: after every check the sequence holds only timestamps less than 60
\* older than the check, at most 20 of them, in non-decreasing order; and a
\* token with 20 timestamps all exactly 60 old is admitted.
C9_WindowStrict == []C9_Inv /\ [][C9_Step]_vars

\* C9 witness: the token was rate-limited at time 0, and the next check, at
\* time 60, is admitted and leaves one timestamp.
C9_Witness ==
    /\ pc = "authorized" /\ idle.wasLimited /\ idle.n = 1
    /\ idle.start = 60 /\ now = 60 /\ Hits = <<60>>

\* C10: when every check runs its lines without interruption, at most 20
\* requests are admitted in any trailing window and every admitted request's
\* timestamp is in the sequence, under every interleaving of the requests;
\* when the lines of two checks interleave, neither is guaranteed (the
\* witness).
C10_AtomicCap ==
    atomic => /\ Len(admitted) <= 20
              /\ InWindow(Hits, now) = admitted

\* C10 witness: with interleaved lines, more than 20 requests admitted in one
\* window and an admitted request's timestamp missing from the sequence.
C10_Witness ==
    /\ ~atomic
    /\ Len(admitted) > 20
    /\ Len(InWindow(Hits, now)) < Len(admitted)
    /\ \A w \in Workers : wpc[w] \in {"idle", "upstream"}
====
